---- MODULE Spec2Model ----
(***************************************************************************)
(* Model of main.py: the SEC Form 4 recency filter (fetch_sec_filings),    *)
(* the per-user capper (read_csv_file), the completion client with model   *)
(* fallback (groq_completion), the two summarizers and the driver main().  *)
(*                                                                         *)
(* Text values on which the code does string work (error messages,         *)
(* generated text, formatted error strings) are sequences of one-character *)
(* strings, so that lower(), "in" and f-string concatenation are computed. *)
(* Instants are integers counted in hours.                                 *)
(***************************************************************************)
EXTENDS Integers, Sequences, FiniteSets, TLC

VARIABLES
    pc,              \* position of the running call / of main()
    now,             \* datetime.now(timezone.utc), in hours
    feed,            \* what the SEC endpoint answers: [ok, entries]
    limit,           \* argument `limit` of fetch_sec_filings
    fs,              \* input flat files: path -> file state
    path,            \* argument `path` of read_csv_file
    per_user_limit,  \* argument `per_user_limit` of read_csv_file
    counts,          \* local `counts` of read_csv_file when it returned
    model,           \* argument `model` of groq_completion
    llm,             \* what groq_completion did: [ret, raised, calls]
    max_tokens,      \* argument `max_tokens` of groq_completion
    examined,        \* entries the pass of fetch_sec_filings looked at
    filings,         \* main: filings
    sec_summary,     \* main: sec_summary
    tweets,          \* main: tweets
    tweet_summary,   \* main: tweet_summary
    youtube_posts,   \* main: youtube_posts
    youtube_summary, \* main: youtube_summary
    calls,           \* completion-service invocations per section
    files            \* output files written so far: name -> content

vars == <<pc, now, feed, limit, fs, path, per_user_limit, counts, model, llm,
          max_tokens, examined, filings, sec_summary, tweets, tweet_summary, youtube_posts,
          youtube_summary, calls, files>>

None == "None"

-----------------------------------------------------------------------------
(* Python text primitives *)

LowerMap == 
    "A" :> "a"
    @@ "B" :> "b"
    @@ "C" :> "c"
    @@ "D" :> "d"
    @@ "E" :> "e"
    @@ "F" :> "f"
    @@ "G" :> "g"
    @@ "H" :> "h"
    @@ "I" :> "i"
    @@ "J" :> "j"
    @@ "K" :> "k"
    @@ "L" :> "l"
    @@ "M" :> "m"
    @@ "N" :> "n"
    @@ "O" :> "o"
    @@ "P" :> "p"
    @@ "Q" :> "q"
    @@ "R" :> "r"
    @@ "S" :> "s"
    @@ "T" :> "t"
    @@ "U" :> "u"
    @@ "V" :> "v"
    @@ "W" :> "w"
    @@ "X" :> "x"
    @@ "Y" :> "y"
    @@ "Z" :> "z"

Lower(c) == IF c \in DOMAIN LowerMap THEN LowerMap[c] ELSE c

\* str.lower()
lower(s) == [i \in 1..Len(s) |-> Lower(s[i])]

\* sub in s
Contains(s, sub) ==
    \E i \in 0..(Len(s) - Len(sub)) : SubSeq(s, i + 1, i + Len(sub)) = sub

-----------------------------------------------------------------------------
(* Completion client *)

PRIMARY_MODEL == "groq/llama-3.3-70b-versatile"
FALLBACK_MODEL == "groq/llama-3.1-8b-instant"

MarkerDecommission == <<"d", "e", "c", "o", "m", "m", "i", "s", "s", "i", "o", "n">>
MarkerModelDecommissioned == <<"m", "o", "d", "e", "l", "_", "d", "e", "c", "o", "m", "m", "i", "s", "s", "i", "o", "n", "e", "d">>
MarkerInvalidRequest == <<"i", "n", "v", "a", "l", "i", "d", "_", "r", "e", "q", "u", "e", "s", "t", "_", "e", "r", "r", "o", "r">>

ErrPrefix == <<"[", "L", "L", "M", " ", "e", "r", "r", "o", "r", "]", " ">>
FallbackErrPrefix == <<"[", "L", "L", "M", " ", "e", "r", "r", "o", "r", " ", "f", "a", "l", "l", "b", "a", "c", "k", "]", " ">>

\* str(e) of the exceptions the completion call can raise
ErrorTexts ==
    { <<"m", "o", "d", "e", "l", "_", "d", "e", "c", "o", "m", "m", "i", "s", "s", "i", "o", "n", "e", "d">>,
      <<"M", "o", "d", "e", "l", " ", "D", "e", "c", "o", "m", "m", "i", "s", "s", "i", "o", "n", "e", "d">>,
      <<"I", "N", "V", "A", "L", "I", "D", "_", "R", "E", "Q", "U", "E", "S", "T", "_", "E", "R", "R", "O", "R">>,
      <<"d", "e", "c", "o", "m", "m", "i", "s", "s", "i", "o">>,
      <<"r", "a", "t", "e", " ", "l", "i", "m", "i", "t">>,
      <<"T", "i", "m", "e", "o", "u", "t">>,
      <<"w", "a", "s", " ", "D", "e", "c", "o", "m", "m", "i", "s", "s", "i", "o", "n", "e", "d">>,
      <<"I", "n", "v", "a", "l", "i", "d", "_", "R", "e", "q", "u", "e", "s", "t", "_", "E", "r", "r", "o", "r", ":", " ", "x">>,
      <<>> }

\* resp["choices"][0]["message"]["content"] of the answers it can give
GeneratedTexts ==
    { <<"B", "u", "y", " ", "A", "C", "M", "E">>,
      <<"o", "k">>,
      <<>> }

Outcomes ==
    {[ok |-> TRUE, text |-> t, err |-> <<>>] : t \in GeneratedTexts}
        \cup {[ok |-> FALSE, text |-> <<>>, err |-> e] : e \in ErrorTexts}

\* line 134 without the .lower() calls
IsRetiredModelError_case_sensitive(msg) ==
    \/ Contains(msg, MarkerDecommission)
    \/ Contains(msg, MarkerModelDecommissioned)
    \/ Contains(msg, MarkerInvalidRequest)

\* the condition of line 134 on msg = str(e)
IsRetiredModelError(msg) ==
    \/ Contains(lower(msg), MarkerDecommission)
    \/ Contains(lower(msg), MarkerModelDecommissioned)
    \/ Contains(lower(msg), MarkerInvalidRequest)

\* groq_completion without the inner try/except of lines 135-140
groq_completion_unguarded(m, mt, svc) ==
    LET first == [model |-> m, max_tokens |-> mt, outcome |-> svc[1]]
        second == [model |-> FALLBACK_MODEL, max_tokens |-> mt,
                   outcome |-> svc[2]]
    IN  IF svc[1].ok
        THEN [ret |-> svc[1].text, raised |-> FALSE, calls |-> <<first>>]
        ELSE IF IsRetiredModelError(svc[1].err)
             THEN IF svc[2].ok
                  THEN [ret |-> svc[2].text, raised |-> FALSE,
                        calls |-> <<first, second>>]
                  ELSE [ret |-> <<>>, raised |-> TRUE,
                        calls |-> <<first, second>>]
             ELSE [ret |-> ErrPrefix \o svc[1].err, raised |-> FALSE,
                   calls |-> <<first>>]

\* svc[k] is what the service does at the k-th invocation of this call
groq_completion(m, mt, svc) ==
    LET first == [model |-> m, max_tokens |-> mt, outcome |-> svc[1]]
        second == [model |-> FALLBACK_MODEL, max_tokens |-> mt,
                   outcome |-> svc[2]]
    IN  IF svc[1].ok
        THEN [ret |-> svc[1].text, raised |-> FALSE, calls |-> <<first>>]
        ELSE IF IsRetiredModelError(svc[1].err)
             THEN IF svc[2].ok
                  THEN [ret |-> svc[2].text, raised |-> FALSE,
                        calls |-> <<first, second>>]
                  ELSE [ret |-> FallbackErrPrefix \o svc[2].err,
                        raised |-> FALSE, calls |-> <<first, second>>]
             ELSE [ret |-> ErrPrefix \o svc[1].err, raised |-> FALSE,
                   calls |-> <<first>>]

-----------------------------------------------------------------------------
(* Output files *)

SEC_CSV == <<"s", "e", "c", "_", "f", "i", "l", "i", "n", "g", "s", ".", "c", "s", "v">>
SENTIMENT_CSV == <<"s", "e", "n", "t", "i", "m", "e", "n", "t", "_", "r", "e", "s", "u", "l", "t", "s", ".", "c", "s", "v">>
SENTIMENT_XLSX == <<"s", "e", "n", "t", "i", "m", "e", "n", "t", "_", "r", "e", "s", "u", "l", "t", "s", ".", "x", "l", "s", "x">>
TWEETS_CSV == <<"t", "w", "e", "e", "t", "s", "_", "d", "a", "t", "a", "s", "e", "t", ".", "c", "s", "v">>
YOUTUBE_CSV == <<"y", "o", "u", "t", "u", "b", "e", "_", "d", "a", "t", "a", "s", "e", "t", ".", "c", "s", "v">>
NormalizedSuffix == <<"_", "n", "o", "r", "m", "a", "l", "i", "z", "e", "d", ".", "c", "s", "v">>

NoFiles == [n \in {} |-> <<>>]

\* DataFrame(...).to_csv(name): whole-file overwrite
to_csv(fl, name, content) ==
    [n \in DOMAIN fl \cup {name} |-> IF n = name THEN content ELSE fl[n]]

-----------------------------------------------------------------------------
(* SEC Form 4 fetch and recency filter *)

Window == 48

\* a raw timestamp field of a feed entry: absent, a string that
\* datetime.fromisoformat rejects, or an ISO-8601 string giving a wall-clock
\* hour with no zone ("naive"), a "Z" suffix or a numeric offset in hours
NoRaw == [kind |-> "none", wall |-> 0, tz |-> "naive", off |-> 0]
BadRaw == [kind |-> "bad", wall |-> 0, tz |-> "naive", off |-> 0]
Iso(w, tz, off) == [kind |-> "iso", wall |-> w, tz |-> tz, off |-> off]

\* entry["updated_parsed"]: absent, or a UTC time tuple
NoParsed == [some |-> FALSE, utc |-> 0]
Parsed(t) == [some |-> TRUE, utc |-> t]

\* a datetime: wall-clock hour, tzinfo (aware or not) and utcoffset
NoDt == [some |-> FALSE, wall |-> 0, aware |-> FALSE, off |-> 0]

\* updated_raw.replace("Z", "+00:00")
ReplaceZ(raw) ==
    IF raw.kind = "iso" /\ raw.tz = "Z"
    THEN [raw EXCEPT !.tz = "offset", !.off = 0]
    ELSE raw

\* datetime.fromisoformat; NoDt stands for the exception
fromisoformat(raw) ==
    IF raw.kind = "iso"
    THEN [some |-> TRUE, wall |-> raw.wall, aware |-> raw.tz # "naive",
          off |-> IF raw.tz = "naive" THEN 0 ELSE raw.off]
    ELSE NoDt

\* entry.get("updated") or entry.get("published") or ""
updated_raw(entry) ==
    IF entry.updated.kind # "none" THEN entry.updated ELSE entry.published

\* lines 54-60: filing_dt, NoDt when it stays None
filing_dt(entry) ==
    LET parsed == fromisoformat(ReplaceZ(updated_raw(entry)))
    IN  IF parsed.some THEN parsed
        ELSE IF entry.updated_parsed.some
             THEN [some |-> TRUE, wall |-> entry.updated_parsed.utc,
                   aware |-> TRUE, off |-> 0]
             ELSE NoDt

\* lines 63-65: filing_dt_utc as an instant
filing_dt_utc(dt) ==
    LET aware == IF dt.aware THEN dt ELSE [dt EXCEPT !.aware = TRUE, !.off = 0]
    IN  aware.wall - aware.off

\* line 66 with <= for <
TooOld_inclusive(dt_utc, two_days_ago) == dt_utc <= two_days_ago

\* line 66: the record is skipped
TooOld(dt_utc, two_days_ago) == dt_utc < two_days_ago

\* line 78: the pass ends
LimitReached(acc, lim) == Len(acc) >= lim

\* lines 69-77: the record appended; isoformat() of a UTC datetime
FilingRecord(entry, dt_utc) ==
    [company |-> entry.title, link |-> entry.link,
     updated |-> Iso(dt_utc, "offset", 0), summary |-> entry.summary]

\* lines 52-79: the loop from entry i on; `examined` is how many entries the
\* pass looked at before it ended
RECURSIVE FetchLoop(_, _, _, _, _)
FetchLoop(entries, i, acc, lim, two_days_ago) ==
    IF i > Len(entries)
    THEN [filings |-> acc, examined |-> Len(entries)]
    ELSE LET dt == filing_dt(entries[i])
         IN  IF ~dt.some
             THEN FetchLoop(entries, i + 1, acc, lim, two_days_ago)
             ELSE IF TooOld(filing_dt_utc(dt), two_days_ago)
                  THEN FetchLoop(entries, i + 1, acc, lim, two_days_ago)
                  ELSE LET acc2 == Append(acc,
                                     FilingRecord(entries[i], filing_dt_utc(dt)))
                       IN  IF LimitReached(acc2, lim)
                           THEN [filings |-> acc2, examined |-> i]
                           ELSE FetchLoop(entries, i + 1, acc2, lim,
                                          two_days_ago)

\* fetch_sec_filings(limit) when the endpoint answers fd at instant t
fetch_sec_filings(fd, lim, t, fl) ==
    IF ~fd.ok
    THEN [ret |-> <<>>, examined |-> 0, files |-> fl]
    ELSE LET r == FetchLoop(fd.entries, 1, <<>>, lim, t - Window)
         IN  [ret |-> r.filings, examined |-> r.examined,
              files |-> IF r.filings # <<>>
                        THEN to_csv(fl, SEC_CSV, r.filings)
                        ELSE fl]

-----------------------------------------------------------------------------
(* Flat-file reader and per-user capper *)

NaN == "NaN"

\* str(r['user']), str(r['content']): a missing cell is the float nan
str(v) == IF v = NaN THEN "nan" ELSE v

LastIndexOf(s, c) ==
    IF \E i \in 1..Len(s) : s[i] = c
    THEN CHOOSE i \in 1..Len(s) :
             s[i] = c /\ \A j \in (i + 1)..Len(s) : s[j] # c
    ELSE 0

\* os.path.splitext(path)[0]
splitext_root(p) ==
    LET sep == LastIndexOf(p, "/")
        dot == LastIndexOf(p, ".")
    IN  IF dot > sep /\ \E k \in (sep + 1)..(dot - 1) : p[k] # "."
        THEN SubSeq(p, 1, dot - 1)
        ELSE p

\* line 116
normalized_path(p) == splitext_root(p) \o NormalizedSuffix

NoCounts == [u \in {} |-> 0]

\* counts.setdefault(user, 0)
setdefault(cnt, user) ==
    IF user \in DOMAIN cnt THEN cnt
    ELSE [u \in DOMAIN cnt \cup {user} |-> IF u = user THEN 0 ELSE cnt[u]]

\* line 111 with > for >=
QuotaExhausted_off_by_one(cnt, user, lim) == cnt[user] > lim

\* line 111: the row is skipped
QuotaExhausted(cnt, user, lim) == cnt[user] >= lim

\* the loop with line 113 moved before the test of line 111
RECURSIVE CapLoop_count_every_row(_, _, _, _, _)
CapLoop_count_every_row(df, i, rows, cnt, lim) ==
    IF i > Len(df)
    THEN [rows |-> rows, counts |-> cnt]
    ELSE LET user == str(df[i].user)
             seen == setdefault(cnt, user)
             bumped == [seen EXCEPT ![user] = @ + 1]
         IN  IF QuotaExhausted(seen, user, lim)
             THEN CapLoop_count_every_row(df, i + 1, rows, bumped, lim)
             ELSE CapLoop_count_every_row(df, i + 1,
                          Append(rows, [user |-> user,
                                        content |-> str(df[i].content)]),
                          bumped, lim)

\* lines 108-114: the loop from row i on
RECURSIVE CapLoop(_, _, _, _, _)
CapLoop(df, i, rows, cnt, lim) ==
    IF i > Len(df)
    THEN [rows |-> rows, counts |-> cnt]
    ELSE LET user == str(df[i].user)
             seen == setdefault(cnt, user)
         IN  IF QuotaExhausted(seen, user, lim)
             THEN CapLoop(df, i + 1, rows, seen, lim)
             ELSE CapLoop(df, i + 1,
                          Append(rows, [user |-> user,
                                        content |-> str(df[i].content)]),
                          [seen EXCEPT ![user] = @ + 1], lim)

\* a file on disk: absent; readable by the first pd.read_csv ("ok"); one
\* whose first read raises and whose second read (error_bad_lines=False)
\* yields the parseable lines ("bad_lines"); or one whose second read raises
\* as well ("unparseable": bytes that are not UTF-8, a directory, or a
\* pandas that rejects the error_bad_lines argument)
Missing == [kind |-> "missing", df |-> <<>>]
Unparseable == [kind |-> "unparseable", df |-> <<>>]
Readable(df) == [kind |-> "ok", df |-> df]
BadLines(df) == [kind |-> "bad_lines", df |-> df]

\* read_csv_file(path, per_user_limit) with disk d and output files fl
read_csv_file(p, lim, d, fl) ==
    LET f == d[p]
        r == CapLoop(f.df, 1, <<>>, NoCounts, lim)
    IN  IF f.kind = "missing"
        THEN [ret |-> <<>>, raised |-> FALSE, counts |-> NoCounts,
              files |-> fl]
        ELSE IF f.kind = "unparseable"
             THEN [ret |-> <<>>, raised |-> TRUE, counts |-> NoCounts,
                   files |-> fl]
             ELSE IF f.df = <<>>
                  THEN [ret |-> <<>>, raised |-> FALSE, counts |-> NoCounts,
                        files |-> fl]
                  ELSE [ret |-> r.rows, raised |-> FALSE,
                        counts |-> r.counts,
                        files |-> to_csv(fl, normalized_path(p), r.rows)]

-----------------------------------------------------------------------------
(* Summarizers *)

DefaultMaxTokens == 1024
PostsMaxTokens == 1200

NoSecFilings == <<"N", "o", " ", "S", "E", "C", " ", "f", "i", "l", "i", "n", "g", "s", " ", "t", "o", " ", "s", "u", "m", "m", "a", "r", "i", "z", "e", ".">>
PlatformTwitter == <<"T", "w", "i", "t", "t", "e", "r">>
PlatformYouTube == <<"Y", "o", "u", "T", "u", "b", "e">>

\* f"No {platform} posts to summarize."
NoPosts(platform) == <<"N", "o", " ">> \o platform \o <<" ", "p", "o", "s", "t", "s", " ", "t", "o", " ", "s", "u", "m", "m", "a", "r", "i", "z", "e", ".">>

\* summarize_sec without the early return of lines 147-148
summarize_sec_no_guard(fil, svc) ==
    groq_completion(PRIMARY_MODEL, DefaultMaxTokens, svc)

\* summarize_sec(filings)
summarize_sec(fil, svc) ==
    IF fil = <<>>
    THEN [ret |-> NoSecFilings, raised |-> FALSE, calls |-> <<>>]
    ELSE groq_completion(PRIMARY_MODEL, DefaultMaxTokens, svc)

\* summarize_posts(posts, platform)
summarize_posts(posts, platform, svc) ==
    IF posts = <<>>
    THEN [ret |-> NoPosts(platform), raised |-> FALSE, calls |-> <<>>]
    ELSE groq_completion(PRIMARY_MODEL, PostsMaxTokens, svc)

-----------------------------------------------------------------------------
(* Bounds and input spaces *)

MaxEntries == 3
MaxLimit == 3
MaxRows == 4
MaxCap == 3

DefaultLimit == 20
DefaultCap == 5

SeqsUpTo(S, n) == UNION {[1..k -> S] : k \in 0..n}

NowValues == {1000}

Entry(u, p, up, title) ==
    [updated |-> u, published |-> p, updated_parsed |-> up, title |-> title,
     link |-> "https://sec.gov/x", summary |-> "Filed"]

\* feed entries around the window's edges, in every representation the
\* code distinguishes
EntrySet(t) ==
    {Entry(Iso(t - d, "Z", 0), NoRaw, Parsed(t - d), "ACME") :
         d \in {49, 48, 47, 1, -1}}
    \cup {Entry(Iso(t - 53, "offset", -5), NoRaw, NoParsed, "GLOBEX"),
          Entry(Iso(t - 44, "offset", 5), NoRaw, NoParsed, "GLOBEX"),
          Entry(Iso(t - 48, "naive", 0), NoRaw, NoParsed, "INITECH"),
          Entry(NoRaw, Iso(t - 49, "Z", 0), NoParsed, "INITECH"),
          Entry(BadRaw, NoRaw, Parsed(t - 48), "HOOLI"),
          Entry(BadRaw, Iso(t - 1, "Z", 0), NoParsed, "HOOLI"),
          Entry(NoRaw, NoRaw, NoParsed, "HOOLI")}

TransportFailure == [ok |-> FALSE, entries |-> <<>>]
Feeds(t) ==
    {TransportFailure}
        \cup {[ok |-> TRUE, entries |-> es] :
                  es \in SeqsUpTo(EntrySet(t), MaxEntries)}

Limits == 0..MaxLimit \cup {DefaultLimit}

Row(u, c) == [user |-> u, content |-> c]
RowSet == {Row("alice", "x"), Row("alice", "y"), Row("Alice", "x"),
           Row(NaN, NaN)}

\* seven rows of one user
SevenContents == <<"t1", "t2", "t3", "t4", "t5", "t6", "t7">>
SevenRows == [i \in 1..7 |-> Row("alice", SevenContents[i])]

DataFrames == SeqsUpTo(RowSet, MaxRows) \cup {SevenRows}

FileStates ==
    {Missing, Unparseable}
        \cup {Readable(df) : df \in DataFrames}
        \cup {BadLines(df) : df \in DataFrames}

Paths == {TWEETS_CSV, <<"d", "a", "t", "a", ".", "v", "1", "/", "y", "t">>}
Caps == 0..MaxCap \cup {DefaultCap}

NoLlm == [ret |-> <<>>, raised |-> FALSE, calls |-> <<>>]
NoDisk == [p \in {} |-> Missing]

-----------------------------------------------------------------------------
(* fetch_sec_filings called on its own *)

NoCsvCall ==
    /\ fs = NoDisk /\ path = <<>> /\ per_user_limit = 0 /\ counts = NoCounts
    /\ tweets = <<>>
NoSecCall ==
    /\ now = 0 /\ feed = TransportFailure /\ limit = 0 /\ examined = 0
    /\ filings = <<>>
NoLlmCall ==
    /\ model = None /\ max_tokens = 0 /\ llm = NoLlm
NoMain ==
    /\ sec_summary = <<>> /\ tweet_summary = <<>> /\ youtube_posts = <<>>
    /\ youtube_summary = <<>> /\ calls = <<>>

InitSec ==
    /\ pc = "fetch_sec_filings"
    /\ now \in NowValues
    /\ feed \in Feeds(now)
    /\ limit \in Limits
    /\ examined = 0
    /\ filings = <<>>
    /\ files = NoFiles
    /\ NoCsvCall /\ NoLlmCall /\ NoMain

FetchSecFilings ==
    /\ pc = "fetch_sec_filings"
    /\ LET r == fetch_sec_filings(feed, limit, now, files)
       IN  /\ filings' = r.ret
           /\ examined' = r.examined
           /\ files' = r.files
    /\ pc' = "returned"
    /\ UNCHANGED <<now, feed, limit, fs, path, per_user_limit, counts, model,
                   llm, max_tokens, sec_summary, tweets, tweet_summary,
                   youtube_posts, youtube_summary, calls>>

NextSec == FetchSecFilings

SpecSec == InitSec /\ [][NextSec]_vars

-----------------------------------------------------------------------------
(* read_csv_file called on its own *)

InitCsv ==
    /\ pc = "read_csv_file"
    /\ path \in Paths
    /\ \E f \in FileStates : fs = [p \in {path} |-> f]
    /\ per_user_limit \in Caps
    /\ counts = NoCounts
    /\ tweets = <<>>
    /\ files = NoFiles
    /\ NoSecCall /\ NoLlmCall /\ NoMain

ReadCsvFile ==
    /\ pc = "read_csv_file"
    /\ LET r == read_csv_file(path, per_user_limit, fs, files)
       IN  /\ tweets' = r.ret
           /\ counts' = r.counts
           /\ files' = r.files
           /\ pc' = IF r.raised THEN "raised" ELSE "returned"
    /\ UNCHANGED <<now, feed, limit, fs, path, per_user_limit, model, llm,
                   max_tokens, examined, filings, sec_summary, tweet_summary,
                   youtube_posts, youtube_summary, calls>>

NextCsv == ReadCsvFile

SpecCsv == InitCsv /\ [][NextCsv]_vars

-----------------------------------------------------------------------------
(* groq_completion called on its own *)

InitLlm ==
    /\ pc = "groq_completion"
    /\ model = PRIMARY_MODEL
    /\ max_tokens \in {DefaultMaxTokens, PostsMaxTokens}
    /\ llm = NoLlm
    /\ files = NoFiles
    /\ NoSecCall /\ NoCsvCall /\ NoMain

GroqCompletion ==
    /\ pc = "groq_completion"
    /\ \E svc \in [1..2 -> Outcomes] :
           /\ llm' = groq_completion(model, max_tokens, svc)
           /\ pc' = IF llm'.raised THEN "raised" ELSE "returned"
    /\ UNCHANGED <<now, feed, limit, fs, path, per_user_limit, counts, model,
                   max_tokens, examined, filings, sec_summary, tweets,
                   tweet_summary, youtube_posts, youtube_summary, calls,
                   files>>

NextLlm == GroqCompletion

SpecLlm == InitLlm /\ [][NextLlm]_vars

-----------------------------------------------------------------------------
(* Properties of the completion client (SpecLlm) *)

IsText(s) == DOMAIN s = 1..Len(s) /\ \A i \in DOMAIN s : s[i] \in STRING

ErrorMarker == <<"[", "L", "L", "M", " ", "e", "r", "r", "o", "r">>

\* the error texts of ErrorTexts that name a retired or invalid model,
\* whatever their letter case
MarkedErrors ==
    { <<"m", "o", "d", "e", "l", "_", "d", "e", "c", "o", "m", "m", "i", "s", "s", "i", "o", "n", "e", "d">>,
      <<"M", "o", "d", "e", "l", " ", "D", "e", "c", "o", "m", "m", "i", "s", "s", "i", "o", "n", "e", "d">>,
      <<"I", "N", "V", "A", "L", "I", "D", "_", "R", "E", "Q", "U", "E", "S", "T", "_", "E", "R", "R", "O", "R">>,
      <<"w", "a", "s", " ", "D", "e", "c", "o", "m", "m", "i", "s", "s", "i", "o", "n", "e", "d">>,
      <<"I", "n", "v", "a", "l", "i", "d", "_", "R", "e", "q", "u", "e", "s", "t", "_", "E", "r", "r", "o", "r", ":", " ", "x">> }

NoAttemptSucceeded(c) == \A k \in 1..Len(c) : ~c[k].outcome.ok
EndsWith(s, suffix) ==
    /\ Len(suffix) <= Len(s)
    /\ SubSeq(s, Len(s) - Len(suffix) + 1, Len(s)) = suffix

\* C1: whatever the completion service does at the primary and at the
\* fallback attempt, groq_completion returns a text and does not raise; when
\* no attempt succeeded the text is non-empty, contains the marker
\* "[LLM error" and ends with the error text of the last attempt made.
C1_ErrorsReturnedAsText ==
    /\ pc # "raised"
    /\ pc = "returned" =>
           /\ ~llm.raised
           /\ IsText(llm.ret)
           /\ Len(llm.calls) >= 1
           /\ NoAttemptSucceeded(llm.calls) =>
                  /\ llm.ret # <<>>
                  /\ Contains(llm.ret, ErrorMarker)
                  /\ EndsWith(llm.ret, llm.calls[Len(llm.calls)].outcome.err)

\* both attempts failed, the second with a non-empty error text
C1_Witness ==
    /\ pc = "returned"
    /\ Len(llm.calls) = 2
    /\ NoAttemptSucceeded(llm.calls)
    /\ llm.calls[2].outcome.err = <<"r", "a", "t", "e", " ", "l", "i", "m", "i", "t">>
    /\ llm.ret = <<"[", "L", "L", "M", " ", "e", "r", "r", "o", "r", " ", "f", "a", "l", "l", "b", "a", "c", "k", "]", " ", "r", "a", "t", "e", " ", "l", "i", "m", "i", "t">>

\* C2: a call makes one or two service invocations, the first with the
\* requested (primary) model; a second one is made exactly when the first
\* failed with an error text carrying a retired/invalid-model marker in any
\* letter case, it goes to the fallback model, and when it succeeds its text
\* is what the call returns.
C2_SingleFallbackHop ==
    pc = "returned" =>
        LET c == llm.calls
        IN  /\ Len(c) \in {1, 2}
            /\ c[1].model = PRIMARY_MODEL
            /\ Len(c) = 2 <=>
                   (~c[1].outcome.ok /\ c[1].outcome.err \in MarkedErrors)
            /\ Cardinality({k \in 1..Len(c) : c[k].model = FALLBACK_MODEL})
                   = Len(c) - 1
            /\ Len(c) = 2 => c[2].model = FALLBACK_MODEL
            /\ (Len(c) = 2 /\ c[2].outcome.ok) => llm.ret = c[2].outcome.text

\* primary fails with a capitalised "decommissioned", fallback answers
C2_Witness ==
    /\ pc = "returned"
    /\ Len(llm.calls) = 2
    /\ llm.calls[1].outcome.err = <<"M", "o", "d", "e", "l", " ", "D", "e", "c", "o", "m", "m", "i", "s", "s", "i", "o", "n", "e", "d">>
    /\ llm.calls[2].outcome.ok
    /\ llm.ret = <<"B", "u", "y", " ", "A", "C", "M", "E">>

-----------------------------------------------------------------------------
(* Properties of the recency filter (SpecSec) *)

\* the UTC instant an ISO-8601 text denotes
InstantOf(iso) == iso.wall - iso.off

Parseable(entry) == filing_dt(entry).some
T(entry) == filing_dt_utc(filing_dt(entry))
Survives(entry) ==
    \E k \in 1..Len(filings) : filings[k] = FilingRecord(entry, T(entry))

Min(a, b) == IF a <= b THEN a ELSE b

\* the records of the entries of es that have a parseable timestamp inside
\* the window, in the order of es
RECURSIVE QualifyingRecords(_, _)
QualifyingRecords(es, cutoff) ==
    IF es = <<>> THEN <<>>
    ELSE LET rest == QualifyingRecords(Tail(es), cutoff)
         IN  IF Parseable(Head(es)) /\ T(Head(es)) >= cutoff
             THEN <<FilingRecord(Head(es), T(Head(es)))>> \o rest
             ELSE rest

\* C5, as stated: every entry of the feed with a parseable timestamp T
\* survives the filter if and only if T >= now - 48h (looked at for the
\* calls with limit >= 1).
C5_SurvivesIffRecent ==
    (pc = "returned" /\ feed.ok /\ limit >= 1) =>
        \A i \in 1..Len(feed.entries) :
            Parseable(feed.entries[i]) =>
                (Survives(feed.entries[i])
                     <=> T(feed.entries[i]) >= now - Window)

\* C5, amended: every entry with a parseable timestamp T that the pass
\* examines before it stops on the limit survives if and only if
\* T >= now - 48h, a timestamp of exactly now - 48h being kept.
C5_ExaminedSurvivesIffRecent ==
    (pc = "returned" /\ feed.ok) =>
        /\ examined <= Len(feed.entries)
        /\ \A i \in 1..examined :
               Parseable(feed.entries[i]) =>
                   (Survives(feed.entries[i])
                        <=> T(feed.entries[i]) >= now - Window)

\* the pass stopped on the limit before the end of the feed, having kept an
\* entry dated exactly now - 48h and dropped one dated now - 49h
C5_Witness ==
    /\ pc = "returned" /\ feed.ok
    /\ examined < Len(feed.entries)
    /\ \E i, j \in 1..examined :
           /\ Parseable(feed.entries[i]) /\ Parseable(feed.entries[j])
           /\ T(feed.entries[i]) = now - Window
           /\ Survives(feed.entries[i])
           /\ T(feed.entries[j]) = now - Window - 1
           /\ ~Survives(feed.entries[j])

\* C6: fetch_sec_filings never returns more than `limit` records.
C6_AtMostLimit ==
    pc = "returned" => Len(filings) <= limit

\* C7: every record returned has its `updated` instant in [now - 48h, now]
\* (looked at for the calls with limit >= 1).
C7_UpdatedWithinWindow ==
    (pc = "returned" /\ limit >= 1) =>
        \A k \in 1..Len(filings) :
            /\ InstantOf(filings[k].updated) >= now - Window
            /\ InstantOf(filings[k].updated) <= now

\* C8: the result is the prefix, of length at most `limit`, of the feed's
\* qualifying records in feed order, unparseable entries being skipped.
C8_PrefixOfQualifying ==
    (pc = "returned" /\ feed.ok) =>
        LET q == QualifyingRecords(feed.entries, now - Window)
        IN  /\ Len(filings) <= limit
            /\ filings = SubSeq(q, 1, Min(limit, Len(q)))

-----------------------------------------------------------------------------
(* Properties of the per-user capper (SpecCsv) *)

\* the DataFrame the loop of read_csv_file iterates over
LoopInput == IF fs[path].kind \in {"ok", "bad_lines"} THEN fs[path].df ELSE <<>>

CountOf(rows, e) == Cardinality({k \in 1..Len(rows) : rows[k].user = e})

\* C3: for every entity E the list returned by read_csv_file holds at most
\* per_user_limit records whose user is E.
C3_AtMostCapPerEntity ==
    pc = "returned" =>
        \A k \in 1..Len(tweets) :
            CountOf(tweets, tweets[k].user) <= per_user_limit

\* an entity with more input rows than the cap, cut down to exactly the cap
C3_Witness ==
    /\ pc = "returned"
    /\ per_user_limit >= 1
    /\ \E k \in 1..Len(tweets) :
           /\ CountOf(tweets, tweets[k].user) = per_user_limit
           /\ Cardinality({j \in 1..Len(LoopInput) :
                               str(LoopInput[j].user) = tweets[k].user})
                  > per_user_limit

\* row i is kept when fewer than cap rows of the same stringified entity
\* come before it
Kept(df, i, cap) ==
    Cardinality({j \in 1..(i - 1) : str(df[j].user) = str(df[i].user)}) < cap

RECURSIVE KeptRows(_, _, _)
KeptRows(df, i, cap) ==
    IF i > Len(df) THEN <<>>
    ELSE (IF Kept(df, i, cap)
          THEN <<[user |-> str(df[i].user), content |-> str(df[i].content)]>>
          ELSE <<>>) \o KeptRows(df, i + 1, cap)

\* C4: the list returned is the input's rows, in input order, that have
\* fewer than cap earlier rows of the same stringified entity (so the first
\* cap rows of each entity and none after); every entity seen has a counter,
\* and the counter equals the number of that entity's rows retained.
C4_OrderPreservingCap ==
    pc = "returned" =>
        /\ tweets = KeptRows(LoopInput, 1, per_user_limit)
        /\ DOMAIN counts = {str(LoopInput[i].user) : i \in 1..Len(LoopInput)}
        /\ \A e \in DOMAIN counts :
               /\ counts[e] = CountOf(tweets, e)
               /\ counts[e] <= per_user_limit

\* seven rows of "alice" under the default cap of 5: the first five, in order
C4_Witness ==
    /\ pc = "returned"
    /\ LoopInput = SevenRows
    /\ per_user_limit = DefaultCap
    /\ tweets = SubSeq(SevenRows, 1, 5)
    /\ counts["alice"] = 5

-----------------------------------------------------------------------------
(* main() *)

MainOutcomes ==
    {[ok |-> TRUE, text |-> <<"o", "k">>, err |-> <<>>],
     [ok |-> FALSE, text |-> <<>>, err |-> <<"m", "o", "d", "e", "l", "_", "d", "e", "c", "o", "m", "m", "i", "s", "s", "i", "o", "n", "e", "d">>],
     [ok |-> FALSE, text |-> <<>>, err |-> <<"T", "i", "m", "e", "o", "u", "t">>]}

MainFeeds(t) ==
    {TransportFailure,
     [ok |-> TRUE, entries |-> <<>>],
     [ok |-> TRUE,
      entries |-> <<Entry(Iso(t - 1, "Z", 0), NoRaw, Parsed(t - 1), "ACME")>>],
     [ok |-> TRUE,
      entries |-> <<Entry(Iso(t - 49, "Z", 0), NoRaw, Parsed(t - 49), "ACME")>>]}

MainFileStates ==
    {Missing, Unparseable, Readable(<<>>), Readable(<<Row("alice", "x")>>),
     BadLines(<<Row(NaN, "y")>>), Readable(SevenRows)}

\* line 197
summary_rows ==
    <<[section |-> "sec_summary", content |-> sec_summary],
      [section |-> "twitter_summary", content |-> tweet_summary],
      [section |-> "youtube_summary", content |-> youtube_summary]>>

\* lines 205-212: the sheets of the workbook
sheets ==
    (IF filings # <<>> THEN <<"SEC Filings">> ELSE <<>>)
        \o (IF tweets # <<>> THEN <<"Twitter">> ELSE <<>>)
        \o (IF youtube_posts # <<>> THEN <<"YouTube">> ELSE <<>>)
        \o <<"Summaries">>

\* the completion-service invocations made for a section
Record(log, section, invocations) ==
    [x \in DOMAIN log \cup {section} |->
        IF x = section THEN invocations ELSE log[x]]

InitMain ==
    /\ pc = "fetch_sec_filings"
    /\ now \in NowValues
    /\ feed \in MainFeeds(now)
    /\ limit = DefaultLimit
    /\ fs \in [{TWEETS_CSV, YOUTUBE_CSV} -> MainFileStates]
    /\ path = <<>> /\ per_user_limit = 0 /\ counts = NoCounts
    /\ examined = 0
    /\ filings = <<>> /\ tweets = <<>> /\ youtube_posts = <<>>
    /\ sec_summary = <<>> /\ tweet_summary = <<>> /\ youtube_summary = <<>>
    /\ calls = <<>>
    /\ files = NoFiles
    /\ NoLlmCall

\* line 182
MainFetchSecFilings ==
    /\ pc = "fetch_sec_filings"
    /\ LET r == fetch_sec_filings(feed, limit, now, files)
       IN  /\ filings' = r.ret
           /\ examined' = r.examined
           /\ files' = r.files
    /\ pc' = "summarize_sec"
    /\ UNCHANGED <<now, feed, limit, fs, path, per_user_limit, counts, model,
                   llm, max_tokens, sec_summary, tweets, tweet_summary,
                   youtube_posts, youtube_summary, calls>>

\* line 183
MainSummarizeSec ==
    /\ pc = "summarize_sec"
    /\ \E svc \in [1..2 -> MainOutcomes] :
           LET r == summarize_sec(filings, svc)
           IN  /\ sec_summary' = r.ret
               /\ calls' = Record(calls, "sec_summary", r.calls)
               /\ pc' = IF r.raised THEN "raised" ELSE "read_tweets"
    /\ UNCHANGED <<now, feed, limit, fs, path, per_user_limit, counts, model,
                   llm, max_tokens, examined, filings, tweets, tweet_summary,
                   youtube_posts, youtube_summary, files>>

\* line 187
MainReadTweets ==
    /\ pc = "read_tweets"
    /\ path' = TWEETS_CSV
    /\ per_user_limit' = DefaultCap
    /\ LET r == read_csv_file(TWEETS_CSV, DefaultCap, fs, files)
       IN  /\ tweets' = r.ret
           /\ counts' = r.counts
           /\ files' = r.files
           /\ pc' = IF r.raised THEN "raised" ELSE "summarize_tweets"
    /\ UNCHANGED <<now, feed, limit, fs, model, llm, max_tokens, examined,
                   filings, sec_summary, tweet_summary, youtube_posts,
                   youtube_summary, calls>>

\* line 188
MainSummarizeTweets ==
    /\ pc = "summarize_tweets"
    /\ \E svc \in [1..2 -> MainOutcomes] :
           LET r == summarize_posts(tweets, PlatformTwitter, svc)
           IN  /\ tweet_summary' = r.ret
               /\ calls' = Record(calls, "twitter_summary", r.calls)
               /\ pc' = IF r.raised THEN "raised" ELSE "read_youtube"
    /\ UNCHANGED <<now, feed, limit, fs, path, per_user_limit, counts, model,
                   llm, max_tokens, examined, filings, sec_summary, tweets,
                   youtube_posts, youtube_summary, files>>

\* line 192
MainReadYoutube ==
    /\ pc = "read_youtube"
    /\ path' = YOUTUBE_CSV
    /\ per_user_limit' = DefaultCap
    /\ LET r == read_csv_file(YOUTUBE_CSV, DefaultCap, fs, files)
       IN  /\ youtube_posts' = r.ret
           /\ counts' = r.counts
           /\ files' = r.files
           /\ pc' = IF r.raised THEN "raised" ELSE "summarize_youtube"
    /\ UNCHANGED <<now, feed, limit, fs, model, llm, max_tokens, examined,
                   filings, sec_summary, tweets, tweet_summary,
                   youtube_summary, calls>>

\* line 193
MainSummarizeYoutube ==
    /\ pc = "summarize_youtube"
    /\ \E svc \in [1..2 -> MainOutcomes] :
           LET r == summarize_posts(youtube_posts, PlatformYouTube, svc)
           IN  /\ youtube_summary' = r.ret
               /\ calls' = Record(calls, "youtube_summary", r.calls)
               /\ pc' = IF r.raised THEN "raised" ELSE "save_csv"
    /\ UNCHANGED <<now, feed, limit, fs, path, per_user_limit, counts, model,
                   llm, max_tokens, examined, filings, sec_summary, tweets,
                   tweet_summary, youtube_posts, files>>

\* lines 197-202
MainSaveCsv ==
    /\ pc = "save_csv"
    /\ files' = to_csv(files, SENTIMENT_CSV, summary_rows)
    /\ pc' = "save_xlsx"
    /\ UNCHANGED <<now, feed, limit, fs, path, per_user_limit, counts, model,
                   llm, max_tokens, examined, filings, sec_summary, tweets,
                   tweet_summary, youtube_posts, youtube_summary, calls>>

\* lines 205-214
MainSaveXlsx ==
    /\ pc = "save_xlsx"
    /\ files' = to_csv(files, SENTIMENT_XLSX, sheets)
    /\ pc' = "done"
    /\ UNCHANGED <<now, feed, limit, fs, path, per_user_limit, counts, model,
                   llm, max_tokens, examined, filings, sec_summary, tweets,
                   tweet_summary, youtube_posts, youtube_summary, calls>>

NextMain ==
    \/ MainFetchSecFilings
    \/ MainSummarizeSec
    \/ MainReadTweets
    \/ MainSummarizeTweets
    \/ MainReadYoutube
    \/ MainSummarizeYoutube
    \/ MainSaveCsv
    \/ MainSaveXlsx

SpecMain == InitMain /\ [][NextMain]_vars

-----------------------------------------------------------------------------
(* Properties of the driver (SpecMain) *)

Summarized(section) == section \in DOMAIN calls

\* C9: a section whose input list is empty gets its fixed "nothing to
\* summarize" text with no invocation of the completion service, and the
\* service is invoked for a section only when that section's input is
\* non-empty.
C9_NoCallOnEmptyInput ==
    /\ Summarized("sec_summary") =>
           /\ filings = <<>> =>
                  /\ sec_summary = <<"N", "o", " ", "S", "E", "C", " ", "f", "i", "l", "i", "n", "g", "s", " ", "t", "o", " ", "s", "u", "m", "m", "a", "r", "i", "z", "e", ".">>
                  /\ calls["sec_summary"] = <<>>
           /\ calls["sec_summary"] # <<>> => filings # <<>>
    /\ Summarized("twitter_summary") =>
           /\ tweets = <<>> =>
                  /\ tweet_summary = <<"N", "o", " ", "T", "w", "i", "t", "t", "e", "r", " ", "p", "o", "s", "t", "s", " ", "t", "o", " ", "s", "u", "m", "m", "a", "r", "i", "z", "e", ".">>
                  /\ calls["twitter_summary"] = <<>>
           /\ calls["twitter_summary"] # <<>> => tweets # <<>>
    /\ Summarized("youtube_summary") =>
           /\ youtube_posts = <<>> =>
                  /\ youtube_summary = <<"N", "o", " ", "Y", "o", "u", "T", "u", "b", "e", " ", "p", "o", "s", "t", "s", " ", "t", "o", " ", "s", "u", "m", "m", "a", "r", "i", "z", "e", ".">>
                  /\ calls["youtube_summary"] = <<>>
           /\ calls["youtube_summary"] # <<>> => youtube_posts # <<>>

\* a finished run with no filings and no YouTube posts but with tweets: only
\* the Twitter section reached the service
C9_Witness ==
    /\ pc = "done"
    /\ filings = <<>> /\ youtube_posts = <<>> /\ tweets # <<>>
    /\ calls["sec_summary"] = <<>>
    /\ calls["youtube_summary"] = <<>>
    /\ calls["twitter_summary"] # <<>>
    /\ sec_summary = NoSecFilings

\* C10: no run is cut short by an exception, and a run that reaches its end
\* has written sec_filings.csv, the normalized file of each flat-file input
\* and sentiment_results.csv with the rows sec_summary, twitter_summary and
\* youtube_summary.
C10_RunProducesArtifacts ==
    /\ pc # "raised"
    /\ pc = "done" =>
           /\ { <<"s", "e", "c", "_", "f", "i", "l", "i", "n", "g", "s", ".", "c", "s", "v">>,
                <<"t", "w", "e", "e", "t", "s", "_", "d", "a", "t", "a", "s", "e", "t", "_", "n", "o", "r", "m", "a", "l", "i", "z", "e", "d", ".", "c", "s", "v">>,
                <<"y", "o", "u", "t", "u", "b", "e", "_", "d", "a", "t", "a", "s", "e", "t", "_", "n", "o", "r", "m", "a", "l", "i", "z", "e", "d", ".", "c", "s", "v">>,
                <<"s", "e", "n", "t", "i", "m", "e", "n", "t", "_", "r", "e", "s", "u", "l", "t", "s", ".", "c", "s", "v">> } \subseteq DOMAIN files
           /\ [k \in 1..Len(files[SENTIMENT_CSV]) |->
                  files[SENTIMENT_CSV][k].section]
                  = <<"sec_summary", "twitter_summary", "youtube_summary">>

====
